---- MODULE Spec2Model ----
(***************************************************************************)
(* Model of the solana-claude-md installer.  The repository ships two      *)
(* entry points over the same three-entry catalog:                         *)
(*   - bin/cli.js, the non-interactive installer ("cli");                  *)
(*   - the readline-driven installer ("interactive").                      *)
(* A run is one process: it parses process.argv, possibly waits for lines  *)
(* on stdin, copies the selected bundled files into the working directory  *)
(* and prints one line per file plus a summary.                            *)
(***************************************************************************)
EXTENDS Naturals, Sequences, FiniteSets

VARIABLES
    entry,          \* which entry point this process runs: "cli" or "interactive"
    args,           \* process.argv.slice(2)
    pkg,            \* bundled source files under packageRoot, by catalog key
    dest,           \* files of the working directory (targetDir), by file name
    dest0,          \* the working directory as it was when the process started
    pc,             \* position of main
    line,           \* the last line read from stdin, as entered
    force,          \* const force
    selectedFiles,  \* let selectedFiles
    existingFiles,  \* const existingFiles (interactive entry point)
    idx,            \* position of the for..of loop over selectedFiles
    installed,      \* let installed
    skipped,        \* let skipped (bin/cli.js)
    out,            \* what was printed: one record per status line
    summary,        \* the summary printed after the loop
    asked,          \* the questions put to the user so far, in order
    ioFailed,       \* <<key, call>> for every readFileSync / writeFileSync that threw
    action,         \* const action (bin/cli.js), "" before the first one is computed
    exitCode        \* <<>> while the process runs, <<code>> once it ended

vars == <<entry, args, pkg, dest, dest0, pc, line, force, selectedFiles,
          existingFiles, idx, installed, skipped, out, summary, asked, ioFailed,
          action, exitCode>>

(***************************************************************************)
(* Bounds of the model.                                                    *)
(***************************************************************************)
MaxArgs == 2        \* longest argument vector
MaxLen == 4         \* longest answer line of the selectFiles study

(***************************************************************************)
(* The catalog.                                                            *)
(***************************************************************************)
Keys == <<"claude", "backend", "frontend">>

KeySet == {"claude", "backend", "frontend"}

FILES ==
    [claude   |-> [name |-> "CLAUDE.md"],
     backend  |-> [name |-> "SOLANA_EXPERT_AGENT.md"],
     frontend |-> [name |-> "SOLANA_FRONTEND_AGENT.md"]]

CatalogNames == {FILES[k].name : k \in KeySet}

\* A file of the working directory that is no catalog entry.
OtherName == "package.json"

DestNames == CatalogNames \cup {OtherName}

(***************************************************************************)
(* File contents are sequences of bytes; a byte is named by a string.      *)
(* "xFF" is a byte that is no valid UTF-8; "uFFFD" stands for the encoding *)
(* of U+FFFD.  The bundled files are the package's Markdown documents,     *)
(* which are UTF-8 text.                                                   *)
(***************************************************************************)
Absent == [exists |-> FALSE, content |-> <<>>]

File(c) == [exists |-> TRUE, content |-> c]

Bundled(k) == <<"#", k>>

OldContent == <<"old", "xFF">>

OtherContent == <<"{}">>

\* buffer.toString("utf-8"), as readFileSync(path, "utf-8") decodes
Utf8Decode(bytes) ==
    [i \in 1..Len(bytes) |-> IF bytes[i] = "xFF" THEN "uFFFD" ELSE bytes[i]]

\* the UTF-8 encoding writeFileSync applies to a string
Utf8Encode(str) == str

(***************************************************************************)
(* Strings are sequences of one-character strings.                         *)
(***************************************************************************)
IsSpace(c) == c = " "

RECURSIVE TrimStart(_)
TrimStart(s) ==
    IF s # <<>> /\ IsSpace(Head(s)) THEN TrimStart(Tail(s)) ELSE s

RECURSIVE TrimEnd(_)
TrimEnd(s) ==
    IF s # <<>> /\ IsSpace(s[Len(s)]) THEN TrimEnd(SubSeq(s, 1, Len(s) - 1)) ELSE s

\* String.prototype.trim
Trim(s) == TrimEnd(TrimStart(s))

LowerChar(c) ==
    CASE c = "A" -> "a"
      [] c = "L" -> "l"
      [] c = "Y" -> "y"
      [] c = "E" -> "e"
      [] c = "S" -> "s"
      [] c = "N" -> "n"
      [] OTHER -> c

\* String.prototype.toLowerCase
ToLowerCase(s) == [i \in 1..Len(s) |-> LowerChar(s[i])]

\* String.prototype.split(","): the pieces between the commas, empty ones kept
RECURSIVE SplitFrom(_, _, _)
SplitFrom(s, i, cur) ==
    IF i > Len(s) THEN <<cur>>
    ELSE IF s[i] = "," THEN <<cur>> \o SplitFrom(s, i + 1, <<>>)
    ELSE SplitFrom(s, i + 1, Append(cur, s[i]))

Split(s) == SplitFrom(s, 1, <<>>)

\* [...new Set(seq)]: first occurrences, in order
RECURSIVE Dedupe(_)
Dedupe(seq) ==
    IF seq = <<>> THEN <<>>
    ELSE LET init == Dedupe(SubSeq(seq, 1, Len(seq) - 1))
             last == seq[Len(seq)]
         IN IF \E i \in 1..Len(init) : init[i] = last THEN init ELSE Append(init, last)

Range(seq) == {seq[i] : i \in 1..Len(seq)}

Includes(seq, x) == \E i \in 1..Len(seq) : seq[i] = x

\* ask that trims the answer but keeps its case
ask_KeepsCase(entered) == Trim(entered)

\* what ask() resolves to for an entered line
ask(entered) == ToLowerCase(Trim(entered))

\* the pushes of one iteration of the loop over the choices
PushChoice(selected, choice) ==
    LET s1 == IF choice = <<"1">> THEN Append(selected, "claude") ELSE selected
        s2 == IF choice = <<"2">> THEN Append(s1, "backend") ELSE s1
        s3 == IF choice = <<"3">> THEN Append(s2, "frontend") ELSE s2
    IN s3

RECURSIVE PushChoices(_, _)
PushChoices(selected, choices) ==
    IF choices = <<>> THEN selected
    ELSE PushChoices(PushChoice(selected, Head(choices)), Tail(choices))

\* selectFiles that compares the pieces without trimming them
selectFiles_NoTrim(entered) ==
    LET answer == ask(entered)
    IN IF answer = <<"4">> \/ answer = <<"a", "l", "l">>
       THEN <<"claude", "backend", "frontend">>
       ELSE Dedupe(PushChoices(<<>>, Split(answer)))

\* selectFiles that takes an answer naming no entry as "everything"
selectFiles_EmptyMeansAll(entered) ==
    LET answer == ask(entered)
        parts == Split(answer)
        choices == [i \in 1..Len(parts) |-> Trim(parts[i])]
        picked == Dedupe(PushChoices(<<>>, choices))
    IN IF answer = <<"4">> \/ answer = <<"a", "l", "l">> \/ picked = <<>>
       THEN <<"claude", "backend", "frontend">>
       ELSE picked

\* selectFiles that takes a piece "4" of a list as "everything" too
selectFiles_FourTokenMeansAll(entered) ==
    LET answer == ask(entered)
        parts == Split(answer)
        choices == [i \in 1..Len(parts) |-> Trim(parts[i])]
    IN IF answer = <<"4">> \/ answer = <<"a", "l", "l">> \/ Includes(choices, <<"4">>)
       THEN <<"claude", "backend", "frontend">>
       ELSE Dedupe(PushChoices(<<>>, choices))

\* selectFiles, for the line the user entered
selectFiles(entered) ==
    LET answer == ask(entered)
    IN IF answer = <<"4">> \/ answer = <<"a", "l", "l">>
       THEN <<"claude", "backend", "frontend">>
       ELSE LET parts == Split(answer)
                choices == [i \in 1..Len(parts) |-> Trim(parts[i])]
            IN Dedupe(PushChoices(<<>>, choices))

\* confirmOverwrite that proceeds unless the answer is "n"
confirmOverwrite_DefaultYes(existing, entered) ==
    IF Len(existing) = 0 THEN TRUE ELSE ask(entered) # <<"n">>

\* confirmOverwrite, for a non-empty list and the line the user entered
confirmOverwrite(existing, entered) ==
    IF Len(existing) = 0 THEN TRUE
    ELSE LET answer == ask(entered)
         IN answer = <<"y">> \/ answer = <<"y", "e", "s">>

(***************************************************************************)
(* Command line.                                                           *)
(***************************************************************************)
Flags == {"--help", "-h", "--all", "--claude", "--backend", "--frontend",
          "--force", "--bogus"}

ArgVectors == UNION {[1..n -> Flags] : n \in 0..MaxArgs}

\* a.startsWith("--"), on the flags of the model
StartsWithDashes(a) == a # "-h"

\* WantsHelp that knows the long flag only
WantsHelp_LongOnly(a) == Includes(a, "--help")

\* args.includes("--help") || args.includes("-h")
WantsHelp(a) == Includes(a, "--help") \/ Includes(a, "-h")

\* cliSelection whose default leaves the last catalog entry out
cliSelection_ShortDefault(a) ==
    LET s1 == IF Includes(a, "--claude") THEN <<"claude">> ELSE <<>>
        s2 == IF Includes(a, "--backend") THEN Append(s1, "backend") ELSE s1
        s3 == IF Includes(a, "--frontend") THEN Append(s2, "frontend") ELSE s2
    IN IF Len(s3) = 0 THEN <<"claude", "backend">> ELSE s3

\* cliSelection without the default
cliSelection_NoDefault(a) ==
    LET s1 == IF Includes(a, "--claude") THEN <<"claude">> ELSE <<>>
        s2 == IF Includes(a, "--backend") THEN Append(s1, "backend") ELSE s1
        s3 == IF Includes(a, "--frontend") THEN Append(s2, "frontend") ELSE s2
    IN s3

\* bin/cli.js: one push per file flag present, the whole catalog when none is
cliSelection(a) ==
    LET s1 == IF Includes(a, "--claude") THEN <<"claude">> ELSE <<>>
        s2 == IF Includes(a, "--backend") THEN Append(s1, "backend") ELSE s1
        s3 == IF Includes(a, "--frontend") THEN Append(s2, "frontend") ELSE s2
    IN IF Len(s3) = 0 THEN <<"claude", "backend", "frontend">> ELSE s3

\* interactive entry point: the if / else-if chain over the flags
flagSelection(a) ==
    IF Includes(a, "--all") THEN <<"claude", "backend", "frontend">>
    ELSE IF Includes(a, "--claude") THEN <<"claude">>
    ELSE IF Includes(a, "--backend") THEN <<"backend">>
    ELSE IF Includes(a, "--frontend") THEN <<"frontend">>
    ELSE <<>>

\* HasOtherFlag that finds no flag
HasOtherFlag_Never(a) == FALSE

\* args.some((a) => a.startsWith("--") && a !== "--force")
HasOtherFlag(a) == \E i \in 1..Len(a) : StartsWithDashes(a[i]) /\ a[i] # "--force"

(***************************************************************************)
(* Output.                                                                 *)
(***************************************************************************)
\* The exit code is <<>> while the process runs and <<code>> once it ended.
NoExit == <<>>

Msg(t) == [t |-> t, name |-> ""]

Status(t, name) == [t |-> t, name |-> name]

\* A summary shows a count or does not: a shown count n is {n}, a count the
\* text does not mention is {}.
NoSummary == [kind |-> "none", installed |-> {}, skipped |-> {}, failed |-> {}]

\* cliSummaryText that never mentions the skipped files next to the installed
cliSummaryText_DropsSkipped(inst, skip) ==
    IF inst > 0
    THEN [kind |-> "Installed", installed |-> {inst}, skipped |-> {}, failed |-> {}]
    ELSE IF skip > 0
    THEN [kind |-> "AllExist", installed |-> {}, skipped |-> {skip}, failed |-> {}]
    ELSE [kind |-> "NoneInstalled", installed |-> {}, skipped |-> {}, failed |-> {}]

\* bin/cli.js: the text after the loop
cliSummaryText(inst, skip) ==
    IF inst > 0
    THEN [kind |-> "Installed", installed |-> {inst},
          skipped |-> IF skip > 0 THEN {skip} ELSE {}, failed |-> {}]
    ELSE IF skip > 0
    THEN [kind |-> "AllExist", installed |-> {}, skipped |-> {skip}, failed |-> {}]
    ELSE [kind |-> "NoneInstalled", installed |-> {}, skipped |-> {}, failed |-> {}]

\* interactive entry point: the text after the loop
intSummaryText(inst) ==
    IF inst > 0
    THEN [kind |-> "SuccessfullyInstalled", installed |-> {inst},
          skipped |-> {}, failed |-> {}]
    ELSE [kind |-> "NoneInstalled", installed |-> {}, skipped |-> {}, failed |-> {}]

(***************************************************************************)
(* The file system calls.                                                  *)
(***************************************************************************)
\* existsSync(join(targetDir, name))
existsSync(name) == dest[name].exists

\* ShouldSkip with the existence check dropped
ShouldSkip_Never(name, f) == FALSE

\* ShouldSkip with the force flag ignored
ShouldSkip_IgnoresForce(name, f) == existsSync(name)

\* bin/cli.js: if (existsSync(targetPath) && !force)
ShouldSkip(name, f) == existsSync(name) /\ ~f

\* bin/cli.js: const action = existsSync(targetPath) && force ? ... : ...,
\* for what existsSync answers where the statement stands, after the write
cliAction(existsNow, f) == IF existsNow /\ f THEN "overwritten" ELSE "created"

\* NeedsConfirm with the force flag ignored
NeedsConfirm_IgnoresForce(existing, f) == Len(existing) > 0

\* interactive entry point: if (existingFiles.length > 0 && !force)
NeedsConfirm(existing, f) == Len(existing) > 0 /\ ~f

\* How the two calls of one try block can end: both succeed, readFileSync
\* throws, writeFileSync throws before it changed anything, or writeFileSync
\* throws after it opened (and so truncated or created) the file.
IoOutcomes == {"ok", "readThrows", "writeThrows", "writeThrowsTruncated"}

\* TryCopy whose catch block prints nothing
TryCopy_SilentCatch(key, io) ==
    LET name == FILES[key].name
        content == Utf8Decode(pkg[key].content)
    IN CASE io = "ok" ->
              /\ dest' = [dest EXCEPT ![name] = File(Utf8Encode(content))]
              /\ out' = Append(out, Status("installed", name))
              /\ installed' = installed + 1
              /\ UNCHANGED ioFailed
         [] io = "readThrows" ->
              /\ ioFailed' = ioFailed \cup {<<key, "read">>}
              /\ UNCHANGED <<dest, installed, out>>
         [] io = "writeThrows" ->
              /\ ioFailed' = ioFailed \cup {<<key, "write">>}
              /\ UNCHANGED <<dest, installed, out>>
         [] io = "writeThrowsTruncated" ->
              /\ dest' = [dest EXCEPT ![name] = File(<<>>)]
              /\ ioFailed' = ioFailed \cup {<<key, "write">>}
              /\ UNCHANGED <<installed, out>>

\* TryCopy whose target path is always that of the first catalog entry
TryCopy_WrongTarget(key, io) ==
    LET name == FILES[key].name
        target == FILES["claude"].name
        content == Utf8Decode(pkg[key].content)
    IN CASE io = "ok" ->
              /\ dest' = [dest EXCEPT ![target] = File(Utf8Encode(content))]
              /\ out' = Append(out, Status("installed", name))
              /\ installed' = installed + 1
              /\ UNCHANGED ioFailed
         [] io = "readThrows" ->
              /\ out' = Append(out, Status("failed", name))
              /\ ioFailed' = ioFailed \cup {<<key, "read">>}
              /\ UNCHANGED <<dest, installed>>
         [] io = "writeThrows" ->
              /\ out' = Append(out, Status("failed", name))
              /\ ioFailed' = ioFailed \cup {<<key, "write">>}
              /\ UNCHANGED <<dest, installed>>
         [] io = "writeThrowsTruncated" ->
              /\ dest' = [dest EXCEPT ![target] = File(<<>>)]
              /\ out' = Append(out, Status("failed", name))
              /\ ioFailed' = ioFailed \cup {<<key, "write">>}
              /\ UNCHANGED installed

\* TryCopy that opens the target before it reads the source
TryCopy_OpensBeforeRead(key, io) ==
    LET name == FILES[key].name
        content == Utf8Decode(pkg[key].content)
    IN CASE io = "ok" ->
              /\ dest' = [dest EXCEPT ![name] = File(Utf8Encode(content))]
              /\ out' = Append(out, Status("installed", name))
              /\ installed' = installed + 1
              /\ UNCHANGED ioFailed
         [] io = "readThrows" ->
              /\ dest' = [dest EXCEPT ![name] = File(<<>>)]
              /\ out' = Append(out, Status("failed", name))
              /\ ioFailed' = ioFailed \cup {<<key, "read">>}
              /\ UNCHANGED installed
         [] io = "writeThrows" ->
              /\ out' = Append(out, Status("failed", name))
              /\ ioFailed' = ioFailed \cup {<<key, "write">>}
              /\ UNCHANGED <<dest, installed>>
         [] io = "writeThrowsTruncated" ->
              /\ dest' = [dest EXCEPT ![name] = File(<<>>)]
              /\ out' = Append(out, Status("failed", name))
              /\ ioFailed' = ioFailed \cup {<<key, "write">>}
              /\ UNCHANGED installed

\* try { readFileSync; writeFileSync; log; installed++ } catch { log }
TryCopy(key, io) ==
    LET name == FILES[key].name
        content == Utf8Decode(pkg[key].content)
    IN CASE io = "ok" ->
              /\ dest' = [dest EXCEPT ![name] = File(Utf8Encode(content))]
              /\ out' = Append(out, Status("installed", name))
              /\ installed' = installed + 1
              /\ UNCHANGED ioFailed
         [] io = "readThrows" ->
              /\ out' = Append(out, Status("failed", name))
              /\ ioFailed' = ioFailed \cup {<<key, "read">>}
              /\ UNCHANGED <<dest, installed>>
         [] io = "writeThrows" ->
              /\ out' = Append(out, Status("failed", name))
              /\ ioFailed' = ioFailed \cup {<<key, "write">>}
              /\ UNCHANGED <<dest, installed>>
         [] io = "writeThrowsTruncated" ->
              /\ dest' = [dest EXCEPT ![name] = File(<<>>)]
              /\ out' = Append(out, Status("failed", name))
              /\ ioFailed' = ioFailed \cup {<<key, "write">>}
              /\ UNCHANGED installed

(***************************************************************************)
(* The state a process starts in.                                          *)
(***************************************************************************)
Init ==
    /\ entry \in {"cli", "interactive"}
    /\ args \in ArgVectors
    /\ pkg = [k \in KeySet |-> File(Bundled(k))]
    /\ \E d \in [CatalogNames -> {Absent, File(OldContent)}] :
          \E o \in {Absent, File(OtherContent)} :
             dest = [n \in DestNames |-> IF n = OtherName THEN o ELSE d[n]]
    /\ dest0 = dest
    /\ pc = "start"
    /\ line = <<>>
    /\ force = FALSE
    /\ selectedFiles = <<>>
    /\ existingFiles = <<>>
    /\ idx = 1
    /\ installed = 0
    /\ skipped = 0
    /\ out = <<>>
    /\ summary = NoSummary
    /\ asked = <<>>
    /\ ioFailed = {}
    /\ action = ""
    /\ exitCode = NoExit

\* process.exit(code) after printing a message
Exit(code, msg) ==
    /\ pc' = "exited"
    /\ exitCode' = <<code>>
    /\ out' = Append(out, Msg(msg))

(***************************************************************************)
(* bin/cli.js                                                              *)
(***************************************************************************)
\* main up to the loop: help, flags, default selection
CliMain ==
    /\ entry = "cli"
    /\ pc = "start"
    /\ IF WantsHelp(args)
       THEN /\ Exit(0, "usage")
            /\ UNCHANGED <<force, selectedFiles>>
       ELSE /\ force' = Includes(args, "--force")
            /\ selectedFiles' = cliSelection(args)
            /\ pc' = "copy"
            /\ UNCHANGED <<out, exitCode>>
    /\ UNCHANGED <<action, entry, args, pkg, dest, dest0, line, existingFiles, idx,
                   installed, skipped, summary, asked, ioFailed>>

\* one iteration of the for..of loop
CliCopy ==
    /\ entry = "cli"
    /\ pc = "copy"
    /\ idx <= Len(selectedFiles)
    /\ LET key == selectedFiles[idx]
           name == FILES[key].name
       IN IF ShouldSkip(name, force)
          THEN /\ out' = Append(out, Status("skipped", name))
               /\ skipped' = skipped + 1
               /\ UNCHANGED <<dest, installed, ioFailed, action>>
          ELSE /\ \E io \in IoOutcomes :
                     /\ TryCopy(key, io)
                     /\ action' = IF io = "ok"
                                  THEN cliAction(dest'[name].exists, force)
                                  ELSE action
               /\ UNCHANGED skipped
    /\ idx' = idx + 1
    /\ UNCHANGED <<entry, args, pkg, dest0, pc, line, force, selectedFiles,
                   existingFiles, summary, asked, exitCode>>

\* CliSummary that turns a failed copy into exit code 1
CliSummary_FailureExit ==
    /\ entry = "cli"
    /\ pc = "copy"
    /\ idx > Len(selectedFiles)
    /\ summary' = cliSummaryText(installed, skipped)
    /\ pc' = "done"
    /\ exitCode' = IF ioFailed # {} THEN <<1>> ELSE <<0>>
    /\ UNCHANGED <<action, entry, args, pkg, dest, dest0, line, force, selectedFiles,
                   existingFiles, idx, installed, skipped, out, asked, ioFailed>>

\* after the loop: the summary, then main returns and the process ends
CliSummary ==
    /\ entry = "cli"
    /\ pc = "copy"
    /\ idx > Len(selectedFiles)
    /\ summary' = cliSummaryText(installed, skipped)
    /\ pc' = "done"
    /\ exitCode' = <<0>>
    /\ UNCHANGED <<action, entry, args, pkg, dest, dest0, line, force, selectedFiles,
                   existingFiles, idx, installed, skipped, out, asked, ioFailed>>

(***************************************************************************)
(* The interactive entry point                                             *)
(***************************************************************************)
\* The lines a user may enter at either question.
Lines ==
    { <<>>,
      <<"1">>,
      <<"2", ",", "3">>,
      <<" ", "3", ",", "1", ",", "3">>,
      <<"9", ",", "2">>,
      <<"4">>,
      <<"A", "l", "l">>,
      <<"9">>,
      <<"y">>,
      <<" ", "Y", "E", "S", " ">>,
      <<"n">>,
      <<"y", "e">> }

\* selectedFiles.map(key => FILES[key].name).filter(name => existsSync(...))
ExistingOf(sel) ==
    LET names == [i \in 1..Len(sel) |-> FILES[sel[i]].name]
    IN SelectSeq(names, existsSync)

\* main from "Check for existing files" to the next suspension point, for
\* the selection sel: either the overwrite question is put, or the loop starts
CheckExisting(sel) ==
    /\ existingFiles' = ExistingOf(sel)
    /\ IF NeedsConfirm(ExistingOf(sel), force')
       THEN /\ asked' = Append(asked, "overwrite")
            /\ pc' = "askOverwrite"
       ELSE /\ pc' = "copy"
            /\ UNCHANGED asked
    /\ UNCHANGED <<out, exitCode>>

\* main up to its first suspension point
IntMain ==
    /\ entry = "interactive"
    /\ pc = "start"
    /\ IF WantsHelp(args)
       THEN /\ Exit(0, "usage")
            /\ UNCHANGED <<force, selectedFiles, existingFiles, asked>>
       ELSE /\ force' = Includes(args, "--force")
            /\ selectedFiles' = flagSelection(args)
            /\ IF HasOtherFlag(args) /\ Len(flagSelection(args)) = 0
               THEN /\ Exit(1, "No valid file selection")
                    /\ UNCHANGED <<existingFiles, asked>>
               ELSE IF Len(flagSelection(args)) = 0
               THEN /\ asked' = Append(asked, "select")
                    /\ pc' = "askSelect"
                    /\ UNCHANGED <<existingFiles, out, exitCode>>
               ELSE CheckExisting(flagSelection(args))
    /\ UNCHANGED <<action, entry, args, pkg, dest, dest0, line, idx, installed, skipped,
                   summary, ioFailed>>

\* the user answers the selection question with the line l
IntSelectAnswer(l) ==
    /\ entry = "interactive"
    /\ pc = "askSelect"
    /\ line' = l
    /\ selectedFiles' = selectFiles(l)
    /\ UNCHANGED force
    /\ IF Len(selectFiles(l)) = 0
       THEN /\ Exit(0, "No files selected")
            /\ UNCHANGED <<existingFiles, asked>>
       ELSE CheckExisting(selectFiles(l))
    /\ UNCHANGED <<action, entry, args, pkg, dest, dest0, idx, installed, skipped,
                   summary, ioFailed>>

\* the user answers the overwrite question with the line l
IntOverwriteAnswer(l) ==
    /\ entry = "interactive"
    /\ pc = "askOverwrite"
    /\ line' = l
    /\ IF ~confirmOverwrite(existingFiles, l)
       THEN Exit(0, "Installation cancelled")
       ELSE /\ pc' = "copy"
            /\ UNCHANGED <<out, exitCode>>
    /\ UNCHANGED <<action, entry, args, pkg, dest, dest0, force, selectedFiles,
                   existingFiles, idx, installed, skipped, summary, asked, ioFailed>>

\* What line holds once stdin has ended without a line being entered.
Eof == <<"<EOF>">>

\* IntStdinClose that ends the process the way a rejected main() would
IntStdinClose_Rejects ==
    /\ entry = "interactive"
    /\ pc \in {"askSelect", "askOverwrite"}
    /\ line' = Eof
    /\ pc' = "exited"
    /\ exitCode' = <<1>>
    /\ UNCHANGED <<action, entry, args, pkg, dest, dest0, force, selectedFiles,
                   existingFiles, idx, installed, skipped, out, summary, asked,
                   ioFailed>>

\* stdin ends while a question is pending: readline closes, the callback of
\* rl.question is never called, the promise of ask stays pending, and with
\* nothing left to wait for the process ends with code 0
IntStdinClose ==
    /\ entry = "interactive"
    /\ pc \in {"askSelect", "askOverwrite"}
    /\ line' = Eof
    /\ pc' = "exited"
    /\ exitCode' = <<0>>
    /\ UNCHANGED <<action, entry, args, pkg, dest, dest0, force, selectedFiles,
                   existingFiles, idx, installed, skipped, out, summary, asked,
                   ioFailed>>

\* one iteration of the for..of loop
IntCopy ==
    /\ entry = "interactive"
    /\ pc = "copy"
    /\ idx <= Len(selectedFiles)
    /\ \E io \in IoOutcomes : TryCopy(selectedFiles[idx], io)
    /\ idx' = idx + 1
    /\ UNCHANGED <<action, entry, args, pkg, dest0, pc, line, force, selectedFiles,
                   existingFiles, skipped, summary, asked, exitCode>>

\* after the loop: the summary, rl.close(), and the process ends
IntSummary ==
    /\ entry = "interactive"
    /\ pc = "copy"
    /\ idx > Len(selectedFiles)
    /\ summary' = intSummaryText(installed)
    /\ pc' = "done"
    /\ exitCode' = <<0>>
    /\ UNCHANGED <<action, entry, args, pkg, dest, dest0, line, force, selectedFiles,
                   existingFiles, idx, installed, skipped, out, asked, ioFailed>>

Next ==
    \/ CliMain
    \/ CliCopy
    \/ CliSummary
    \/ IntMain
    \/ \E l \in Lines : IntSelectAnswer(l)
    \/ \E l \in Lines : IntOverwriteAnswer(l)
    \/ IntStdinClose
    \/ IntCopy
    \/ IntSummary

Spec == Init /\ [][Next]_vars

(***************************************************************************)
(* selectFiles on its own: every line up to MaxLen characters is entered   *)
(* at the selection question.                                              *)
(***************************************************************************)
Chars == {"1", "2", "3", "4", "9", ",", " ", "a", "l", "L"}

AllLines == UNION {[1..n -> Chars] : n \in 0..MaxLen}

InitSel ==
    /\ entry = "interactive"
    /\ args = <<>>
    /\ pkg = [k \in KeySet |-> File(Bundled(k))]
    /\ dest = [n \in DestNames |-> Absent]
    /\ dest0 = dest
    /\ pc = "askSelect"
    /\ line \in AllLines
    /\ force = FALSE
    /\ selectedFiles = <<>>
    /\ existingFiles = <<>>
    /\ idx = 1
    /\ installed = 0
    /\ skipped = 0
    /\ out = <<>>
    /\ summary = NoSummary
    /\ asked = <<"select">>
    /\ exitCode = NoExit
    /\ ioFailed = {}
    /\ action = ""

\* selectFiles returns for the line that was entered
SelectFilesReturns ==
    /\ pc = "askSelect"
    /\ selectedFiles' = selectFiles(line)
    /\ pc' = "selected"
    /\ UNCHANGED <<action, entry, args, pkg, dest, dest0, line, force, existingFiles, idx,
                   installed, skipped, out, summary, asked, ioFailed, exitCode>>

NextSel == SelectFilesReturns

SpecSel == InitSel /\ [][NextSel]_vars

(***************************************************************************)
(* confirmOverwrite on its own: every line up to MaxLen characters is      *)
(* entered at the overwrite question, put for a non-empty list.            *)
(***************************************************************************)
ConfirmChars == {"y", "Y", "e", "E", "s", "S", "n", " "}

ConfirmLines == UNION {[1..n -> ConfirmChars] : n \in 0..MaxLen}

InitConfirm ==
    /\ entry = "interactive"
    /\ args = <<>>
    /\ pkg = [k \in KeySet |-> File(Bundled(k))]
    /\ dest = [n \in DestNames |-> IF n \in CatalogNames THEN File(OldContent) ELSE Absent]
    /\ dest0 = dest
    /\ pc = "askOverwrite"
    /\ line \in ConfirmLines
    /\ force = FALSE
    /\ selectedFiles \in {<<"claude">>, <<"claude", "backend", "frontend">>}
    /\ existingFiles = [i \in 1..Len(selectedFiles) |-> FILES[selectedFiles[i]].name]
    /\ idx = 1
    /\ installed = 0
    /\ skipped = 0
    /\ out = <<>>
    /\ summary = NoSummary
    /\ asked = <<"overwrite">>
    /\ exitCode = NoExit
    /\ ioFailed = {}
    /\ action = ""

\* confirmOverwrite returns for the line that was entered
ConfirmOverwriteReturns ==
    /\ pc = "askOverwrite"
    /\ pc' = IF confirmOverwrite(existingFiles, line) THEN "confirmed" ELSE "declined"
    /\ UNCHANGED <<action, entry, args, pkg, dest, dest0, line, force, selectedFiles,
                   existingFiles, idx, installed, skipped, out, summary, asked,
                   ioFailed, exitCode>>

NextConfirm == ConfirmOverwriteReturns

SpecConfirm == InitConfirm /\ [][NextConfirm]_vars

(***************************************************************************)
(* Vocabulary of the properties.                                           *)
(***************************************************************************)
NameOf(k) == FILES[k].name

Selected == Range(selectedFiles)

ForceGiven == \E i \in 1..Len(args) : args[i] = "--force"

HelpGiven == \E i \in 1..Len(args) : args[i] \in {"--help", "-h"}

Failed(k) == \E c \in {"read", "write"} : <<k, c>> \in ioFailed

Waiting == pc \in {"askSelect", "askOverwrite"}

\* the overwrite question was put and has been answered
OverwriteAnswered == Includes(asked, "overwrite") /\ pc # "askOverwrite"

\* l is core with blanks before and after it, for some core of the set
Padded(l, cores) ==
    \E i \in 0..Len(l) : \E j \in i..Len(l) :
        /\ SubSeq(l, i + 1, j) \in cores
        /\ \A q \in (1..i) \cup ((j + 1)..Len(l)) : l[q] = " "

YesForms ==
    {<<a>> : a \in {"y", "Y"}}
    \cup {<<a, b, c>> : a \in {"y", "Y"}, b \in {"e", "E"}, c \in {"s", "S"}}

\* the line is y or yes, whatever its case and the blanks around it
SaysYes(l) == Padded(l, YesForms)

(***************************************************************************)
(* Properties.                                                             *)
(***************************************************************************)

\* C1: bin/cli.js without --force never puts a question; every selected
\* entry whose file was in the working directory when the process started is
\* never changed, and once the run is over it has been reported as skipped.
C1_CliSkipsExisting ==
    (entry = "cli" /\ ~ForceGiven) =>
        /\ asked = <<>>
        /\ ~Waiting
        /\ \A k \in Selected :
              dest0[NameOf(k)].exists =>
                 /\ dest[NameOf(k)] = dest0[NameOf(k)]
                 /\ pc = "done" => Includes(out, Status("skipped", NameOf(k)))

\* C1 witness: a finished run of bin/cli.js without --force that skipped an
\* existing file and installed another one.
C1_Witness ==
    /\ entry = "cli" /\ ~ForceGiven /\ pc = "done"
    /\ \E k \in Selected : dest0[NameOf(k)].exists /\ dest0[NameOf(k)].content = OldContent
    /\ \E k \in Selected : ~dest0[NameOf(k)].exists /\ dest[NameOf(k)].exists

\* C2: with --force no overwrite question is put, and at the end of the run
\* every selected entry whose read and write did not throw holds exactly the
\* bundled content, whether or not the file existed before.
C2_ForceInstallsBundled ==
    ForceGiven =>
        /\ ~Includes(asked, "overwrite")
        /\ pc # "askOverwrite"
        /\ pc = "done" =>
              \A k \in Selected :
                 ~Failed(k) => dest[NameOf(k)] = File(pkg[k].content)

\* C2 witness: a finished --force run that replaced an existing file and
\* created a missing one.
C2_Witness ==
    /\ ForceGiven /\ pc = "done"
    /\ \E k \in Selected :
          /\ dest0[NameOf(k)] = File(OldContent)
          /\ dest[NameOf(k)] = File(Bundled(k))
    /\ \E k \in Selected :
          /\ ~dest0[NameOf(k)].exists
          /\ dest[NameOf(k)] = File(Bundled(k))

\* C3: interactive entry point.  Once the overwrite question is answered
\* with anything but y/yes the process has exited with code 0 and the working
\* directory is as it was; and without --force the copy loop is reached with
\* a selected file already present only after the question was answered yes.
C3_DeclineTouchesNothing ==
    entry = "interactive" =>
        /\ (OverwriteAnswered /\ ~SaysYes(line)) =>
              (pc = "exited" /\ exitCode = <<0>> /\ dest = dest0)
        /\ ( /\ pc \in {"copy", "done"}
             /\ ~ForceGiven
             /\ \E k \in Selected : dest0[NameOf(k)].exists ) =>
              (OverwriteAnswered /\ SaysYes(line))

\* C3 witness: the user declined while one selected file existed and another
\* selected file did not.
C3_Witness ==
    /\ entry = "interactive" /\ pc = "exited" /\ OverwriteAnswered
    /\ line = <<"n">>
    /\ ~ForceGiven
    /\ \E k \in Selected : dest0[NameOf(k)].exists
    /\ \E k \in Selected : ~dest0[NameOf(k)].exists

\* C4: in the copy loop every entry handled so far has exactly one status
\* line, in order, which is a failure line exactly when its read or write
\* threw; a failure never ends the process, the loop can always go on, and a
\* finished run has handled every selected entry and printed the summary.
C4_FailureIsPerEntry ==
    /\ ioFailed # {} => pc \in {"copy", "done"}
    /\ pc \in {"copy", "done"} =>
          /\ Len(out) = idx - 1
          /\ idx <= Len(selectedFiles) + 1
          /\ \A i \in 1..Len(out) :
                /\ out[i].name = NameOf(selectedFiles[i])
                /\ out[i].t \in {"installed", "skipped", "failed"}
                /\ out[i].t = "failed" <=> Failed(selectedFiles[i])
    /\ pc = "copy" => ENABLED (CliCopy \/ CliSummary \/ IntCopy \/ IntSummary)
    /\ pc = "done" => (idx = Len(selectedFiles) + 1 /\ summary # NoSummary)

\* C4 witness: a finished run over three entries whose second entry failed
\* and whose first and third were installed.
C4_Witness ==
    /\ pc = "done" /\ Len(selectedFiles) = 3 /\ Len(out) = 3
    /\ out[1].t = "installed" /\ out[2].t = "failed" /\ out[3].t = "installed"

\* C5: when --help or -h is among the arguments, the process has exited with
\* code 0 as soon as main ran, no question was put, only the usage text was
\* printed and the working directory is as it was.
C5_HelpTouchesNothing ==
    (HelpGiven /\ pc # "start") =>
        /\ pc = "exited"
        /\ exitCode = <<0>>
        /\ asked = <<>>
        /\ out = <<Msg("usage")>>
        /\ dest = dest0

\* C5 witness: -h given after --force, over a working directory that already
\* holds a catalog file.
C5_Witness ==
    /\ pc = "exited"
    /\ args = <<"--force", "-h">>
    /\ \E n \in CatalogNames : dest0[n].exists

PerFileFlags == {"--claude", "--backend", "--frontend"}

KeyOfFlag(f) ==
    CASE f = "--claude" -> "claude"
      [] f = "--backend" -> "backend"
      [] f = "--frontend" -> "frontend"

AllGiven == \E i \in 1..Len(args) : args[i] = "--all"

\* C6: flag-driven selection.  When the arguments are per-file flags only (at
\* least one, in any order, repeated or not), the selection main resolves is
\* exactly the set of keys the flags name, each once.
C6_FlagsSelectExactly ==
    (args # <<>> /\ Range(args) \subseteq PerFileFlags /\ pc # "start") =>
        /\ Selected = {KeyOfFlag(f) : f \in Range(args)}
        /\ Len(selectedFiles) = Cardinality(Selected)

\* C7: with --all among the arguments (and no help flag) the selection main
\* resolves is the whole catalog, whatever per-file flags are also given.
C7_AllSelectsCatalog ==
    (AllGiven /\ ~HelpGiven /\ pc # "start") => Selected = KeySet

\* C8: a run given --all never waits for the user: neither question is put.
C8_AllNeverAsks ==
    AllGiven => (asked = <<>> /\ ~Waiting)

\* the process was started with --all, alone or with --force
OnlyAll == AllGiven /\ Range(args) \subseteq {"--all", "--force"}

\* the working directory held no file when the process started
EmptyDest0 == \A n \in DestNames : ~dest0[n].exists

\* the files of the working directory are the three catalog files, each with
\* the bundled content
ThreeBundledFiles ==
    /\ {n \in DestNames : dest[n].exists} = CatalogNames
    /\ \A k \in KeySet : dest[NameOf(k)] = File(pkg[k].content)

IsToken(l, i, j) ==
    /\ i <= j
    /\ i = 0 \/ l[i] = ","
    /\ j = Len(l) \/ l[j + 1] = ","
    /\ \A q \in (i + 1)..j : l[q] # ","

AllForms ==
    {<<"4">>} \cup {<<a, b, c>> : a \in {"a", "A"}, b \in {"l", "L"}, c \in {"l", "L"}}

IndexChar == <<"1", "2", "3">>

\* the catalog index m is one of the comma-separated pieces of l, blanks
\* around it ignored
NamesIndex(l, m) ==
    \E i \in 0..Len(l) : \E j \in i..Len(l) :
        IsToken(l, i, j) /\ Padded(SubSeq(l, i + 1, j), {<<IndexChar[m]>>})

RefSelection(l) ==
    IF Padded(l, AllForms) THEN KeySet
    ELSE {Keys[m] : m \in {n \in 1..3 : NamesIndex(l, n)}}

\* C10: for every entered line selectFiles returns the keys of the reference
\* (the whole catalog for 4 / all, else the catalog indices found among the
\* trimmed comma-separated pieces, anything else dropped), each key once and
\* catalog keys only.
C10_SelectFilesMatchesReference ==
    pc = "selected" =>
        /\ Selected = RefSelection(line)
        /\ Len(selectedFiles) = Cardinality(Selected)
        /\ Selected \subseteq KeySet

\* C10 witness: a line with a repeated index, a blank and an unknown piece.
C10_Witness ==
    /\ pc = "selected"
    /\ line = <<"2", ",", " ", "2">>
    /\ selectedFiles = <<"backend">>

\* C11: interactive entry point.  When the line entered at the selection
\* question names no catalog entry (it is empty or holds unrecognized pieces
\* only), that very step ends the process with code 0: the selection is
\* empty, no existence check was made, the overwrite question is not put and
\* the working directory is as it was; nothing happens after the exit.
C11_EmptySelectionExits ==
    [][ /\ pc # "exited"
        /\ (pc = "askSelect" /\ RefSelection(line') = {}) =>
              /\ pc' = "exited"
              /\ exitCode' = <<0>>
              /\ selectedFiles' = <<>>
              /\ existingFiles' = <<>>
              /\ asked' = <<"select">>
              /\ dest' = dest0
              /\ summary' = NoSummary ]_vars

\* C11 witness: the user entered an unknown index while catalog files were
\* already in the working directory.
C11_Witness ==
    /\ entry = "interactive" /\ pc = "exited" /\ exitCode = <<0>>
    /\ asked = <<"select">>
    /\ line = <<"9">>
    /\ \E n \in CatalogNames : dest0[n].exists

\* C12: for a non-empty list of existing files confirmOverwrite returns true
\* exactly when the entered line, blanks around it dropped and case ignored,
\* is y or yes; every other line, the empty one included, gives false.
C12_ConfirmIffYes ==
    pc \in {"confirmed", "declined"} =>
        /\ Len(existingFiles) > 0
        /\ pc = "confirmed" <=> SaysYes(line)
        /\ line = <<>> => pc = "declined"

\* C12 witness: a padded, mixed-case yes was accepted.
C12_Witness ==
    /\ pc = "confirmed"
    /\ line = <<" ", "Y", "e", "S">>

\* C13: interactive entry point, order of a run.  Questions come in the order
\* selection, overwrite, each at most once; until the selection is resolved no
\* existence check was made; the overwrite question has been put exactly
\* when --force is absent and a selected file was in the working directory;
\* nothing is written or reported while a question is pending, and once
\* something was, the overwrite question (if put) was answered yes; the
\* summary is there only after every selected entry was attempted.
C13_PipelineOrder ==
    entry = "interactive" =>
        /\ asked \in {<<>>, <<"select">>, <<"overwrite">>, <<"select", "overwrite">>}
        /\ pc \in {"start", "askSelect"} =>
              (existingFiles = <<>> /\ ~Includes(asked, "overwrite"))
        /\ Includes(asked, "overwrite") <=>
              (~ForceGiven /\ \E k \in Selected : dest0[NameOf(k)].exists)
        /\ pc \in {"start", "askSelect", "askOverwrite"} =>
              (dest = dest0 /\ out = <<>> /\ summary = NoSummary)
        /\ (dest # dest0 \/ \E i \in 1..Len(out) : out[i].name # "") =>
              /\ pc \in {"copy", "done"}
              /\ Len(selectedFiles) > 0
              /\ Includes(asked, "overwrite") => SaysYes(line)
        /\ summary # NoSummary =>
              /\ pc = "done"
              /\ idx = Len(selectedFiles) + 1
              /\ Len(out) = Len(selectedFiles)

\* C13 witness: a finished run that put both questions and attempted more
\* than one entry.
C13_Witness ==
    /\ entry = "interactive" /\ pc = "done"
    /\ asked = <<"select", "overwrite">>
    /\ summary # NoSummary
    /\ Len(selectedFiles) > 1

UnknownFlagGiven == \E i \in 1..Len(args) : args[i] = "--bogus"

NoPerFileFlag == Range(args) \cap PerFileFlags = {}

\* C14 as stated: bin/cli.js, given an unrecognized -- flag and no per-file
\* flag (and no help flag), has ended early, after the "no valid selection"
\* message, with a non-zero code and without writing a file, whenever it
\* has ended.
C14_CliRejectsUnknownFlag ==
    ( /\ entry = "cli"
      /\ UnknownFlagGiven /\ NoPerFileFlag /\ ~HelpGiven
      /\ exitCode # NoExit ) =>
        /\ pc = "exited"
        /\ exitCode # <<0>>
        /\ out = <<Msg("No valid file selection")>>
        /\ dest = dest0

\* C14 as amended: the interactive entry point, given an unrecognized -- flag
\* and none of --all, --claude, --backend, --frontend (and no help flag),
\* prints the "no valid selection" message and exits with code 1 as soon as
\* main ran, before any question and without writing a file.
C14_UnknownFlagExitsOne ==
    ( /\ entry = "interactive"
      /\ UnknownFlagGiven /\ NoPerFileFlag /\ ~AllGiven /\ ~HelpGiven
      /\ pc # "start" ) =>
        /\ pc = "exited"
        /\ exitCode = <<1>>
        /\ out = <<Msg("No valid file selection")>>
        /\ asked = <<>>
        /\ dest = dest0

\* C14 witness: --force with an unknown flag, over a working directory that
\* holds a catalog file.
C14_Witness ==
    /\ entry = "interactive" /\ pc = "exited" /\ exitCode = <<1>>
    /\ args = <<"--force", "--bogus">>
    /\ \E n \in CatalogNames : dest0[n].exists

\* C15: a process started with no arguments puts the selection question, and
\* its working directory is as it was until that question has been answered.
C15_NoArgsAsksFirst ==
    (args = <<>> /\ (dest # dest0 \/ exitCode # NoExit)) =>
        (Includes(asked, "select") /\ pc # "askSelect")

C17_LoopRunsExitZero ==
    /\ pc = "copy" => exitCode = NoExit
    /\ pc = "done" => exitCode = <<0>>
    /\ (ioFailed # {} \/ \E i \in 1..Len(out) : out[i].t = "failed") =>
          (pc \in {"copy", "done"} /\ exitCode \in {NoExit, <<0>>})

\* C17 witness: a finished run over three entries, all of which failed.
C17_Witness ==
    /\ pc = "done" /\ exitCode = <<0>>
    /\ installed = 0
    /\ Len(out) = 3
    /\ \A i \in 1..3 : out[i].t = "failed"

\* C18: interactive entry point.  Stdin can end at either question, and once
\* it has, the process has ended with code 0, as after an empty answer or a
\* declined overwrite: the working directory is as it was and no status line
\* or summary was printed.
C18_StdinCloseIsQuiet ==
    /\ (entry = "interactive" /\ Waiting) => ENABLED IntStdinClose
    /\ line = Eof =>
          /\ pc = "exited"
          /\ exitCode = <<0>>
          /\ dest = dest0
          /\ out = <<>>
          /\ summary = NoSummary

\* C18 witness: stdin ended at the overwrite question, after the selection
\* had been entered.
C18_Witness ==
    /\ line = Eof /\ pc = "exited"
    /\ asked = <<"select", "overwrite">>
    /\ Len(selectedFiles) > 0

\* how many status lines of the kind t were printed
Count(t) == Cardinality({i \in 1..Len(out) : out[i].t = t})

\* every selected entry has exactly one status line, in order
OneLinePerEntry ==
    /\ Len(out) = Len(selectedFiles)
    /\ \A i \in 1..Len(out) :
          /\ out[i].name = NameOf(selectedFiles[i])
          /\ out[i].t \in {"installed", "skipped", "failed"}

C20_ActionReflectsPriorState ==
    ( /\ entry = "cli"
      /\ pc \in {"copy", "done"}
      /\ idx > 1
      /\ out[idx - 1].t = "installed" ) =>
        action = IF dest0[out[idx - 1].name].exists THEN "overwritten" ELSE "created"

\* C21: frame of a run.  A file of the working directory differs from what
\* it was at the start only if it is the file of a selected entry; the files
\* of the other catalog entries, every other file and the bundled sources
\* are as they were.
C21_OnlySelectedFilesChange ==
    /\ \A n \in DestNames :
          dest[n] # dest0[n] => \E k \in Selected : NameOf(k) = n
    /\ dest[OtherName] = dest0[OtherName]
    /\ pkg = [k \in KeySet |-> File(Bundled(k))]

\* C21 witness: a finished run changed the file of a selected entry and left
\* an existing file of a non-selected entry and a foreign file in place.
C21_Witness ==
    /\ pc = "done"
    /\ \E k \in Selected : dest[NameOf(k)] # dest0[NameOf(k)]
    /\ \E k \in KeySet \ Selected : dest0[NameOf(k)].exists
    /\ dest0[OtherName].exists

\* C22: read before write.  An entry whose readFileSync threw keeps the file
\* it had in the working directory, also under --force or after a yes to the
\* overwrite question; its status line says failed and it is not among the
\* installed.
C22_ReadFailureWritesNothing ==
    \A i \in 1..Len(out) :
        (pc \in {"copy", "done"} /\ <<selectedFiles[i], "read">> \in ioFailed) =>
            /\ dest[NameOf(selectedFiles[i])] = dest0[NameOf(selectedFiles[i])]
            /\ out[i] = Status("failed", NameOf(selectedFiles[i]))
            /\ installed = Count("installed")
            /\ installed < idx - 1

\* C22 witness: the read failed for an entry whose file existed, in a run
\* that was allowed to overwrite it.
C22_Witness ==
    /\ pc = "done"
    /\ \E k \in Selected :
          /\ <<k, "read">> \in ioFailed
          /\ dest0[NameOf(k)] = File(OldContent)
          /\ dest[NameOf(k)] = File(OldContent)
    /\ ForceGiven \/ (Includes(asked, "overwrite") /\ SaysYes(line))

\* the piece "4" is one of the comma-separated pieces of l, blanks around it
\* ignored
NamesFour(l) ==
    \E i \in 0..Len(l) : \E j \in i..Len(l) :
        IsToken(l, i, j) /\ Padded(SubSeq(l, i + 1, j), {<<"4">>})

\* C23: in selectFiles the index 4 stands for the whole catalog only as the
\* entire answer.  In an answer with a comma a piece 4 adds nothing: the
\* selection is the entries whose indices 1..3 are pieces of the answer, so
\* "1,4" gives claude alone and "4,4" gives nothing, and the whole catalog
\* comes back only if all three indices are named.
C23_FourInListIsDropped ==
    (pc = "selected" /\ Includes(line, ",")) =>
        /\ Selected = {Keys[m] : m \in {n \in 1..3 : NamesIndex(line, n)}}
        /\ (Selected = KeySet) => \A n \in 1..3 : NamesIndex(line, n)
        /\ (line = <<"1", ",", "4">>) => selectedFiles = <<"claude">>
        /\ (line = <<"4", ",", "4">>) => selectedFiles = <<>>
        /\ (NamesFour(line) /\ \A n \in 1..3 : ~NamesIndex(line, n)) =>
               selectedFiles = <<>>

\* C23 witness: the answer "1,4" was entered and claude alone came back.
C23_Witness ==
    /\ pc = "selected"
    /\ line = <<"1", ",", "4">>
    /\ NamesFour(line)
    /\ selectedFiles = <<"claude">>

====
